---- MODULE Spec2Model ----
(***************************************************************************)
(* Certificate backend: the students table behind the Supabase client, the *)
(* POST /v1/certificates/request handler, certificate generation           *)
(* (CertificateGenerator) and download, the profile and eligibility        *)
(* updates, the date helpers they use, and the OTP service                 *)
(* (WorkingOtpService) with its otp_sessions table.                        *)
(*                                                                         *)
(* Every `await` on the Supabase client is one atomic step of a handler;   *)
(* the steps of different in-flight handlers interleave freely, as they do *)
(* on Node's event loop.                                                   *)
(***************************************************************************)
EXTENDS Integers, Sequences, FiniteSets, TLC

(***************************************************************************)
(* Bounds of the model.                                                    *)
(***************************************************************************)
\* number of distinct tokens generateCertificateId can draw in the model
NumIds == 2
\* last calendar year of the dates the date specification enumerates
MaxYear == 2025
\* longest internship_duration, in months, a request body carries
MaxDuration == 6

(***************************************************************************)
(* Values.                                                                 *)
(***************************************************************************)
\* SQL NULL / JS null or undefined of a text column or field
NULL == "<null>"
\* NULL of a date column, and an absent date field
NoDate == <<>>
\* NULL of the bytea column `certificate`
NoCertificate == <<>>
\* JS truthiness of a text value: null, undefined and "" are falsy
Falsy(x) == x \in {NULL, ""}
FalsyDate(d) == d = NoDate

\* the 8-character tokens generateCertificateId can return, in the model
IdPool == <<"A1B2C3D4", "Z9Y8X7W6", "Q5R6S7T8", "M3N4P5Q6">>
CertificateIds == {IdPool[i] : i \in 1..NumIds}

(***************************************************************************)
(* Calendar arithmetic of the JS Date object.  A time value is a number of *)
(* minutes since 1970-01-01T00:00Z; the host's time zone is a fixed offset *)
(* in minutes (local = UTC + offset).                                      *)
(***************************************************************************)
MinutesPerDay == 24 * 60

DaysFromCivil(y, m, d) ==
    LET yy  == IF m <= 2 THEN y - 1 ELSE y
        era == yy \div 400
        yoe == yy - era * 400
        mp  == IF m > 2 THEN m - 3 ELSE m + 9
        doy == (153 * mp + 2) \div 5 + d - 1
        doe == yoe * 365 + yoe \div 4 - yoe \div 100 + doy
    IN  era * 146097 + doe - 719468

CivilFromDays(z0) ==
    LET z   == z0 + 719468
        era == z \div 146097
        doe == z - era * 146097
        yoe == (doe - doe \div 1460 + doe \div 36524 - doe \div 146096) \div 365
        doy == doe - (365 * yoe + yoe \div 4 - yoe \div 100)
        mp  == (5 * doy + 2) \div 153
        d   == doy - (153 * mp + 2) \div 5 + 1
        m   == IF mp < 10 THEN mp + 3 ELSE mp - 9
        y   == yoe + era * 400 + (IF m <= 2 THEN 1 ELSE 0)
    IN  <<y, m, d>>

IsLeap(y) == (y % 4 = 0 /\ y % 100 # 0) \/ y % 400 = 0
DaysInMonth(y, m) ==
    IF m = 2 THEN (IF IsLeap(y) THEN 29 ELSE 28)
    ELSE IF m \in {4, 6, 9, 11} THEN 30 ELSE 31

\* new Date("YYYY-MM-DD"): a date-only ISO string is midnight UTC
ParseIsoDate(iso) == DaysFromCivil(iso[1], iso[2], iso[3]) * MinutesPerDay

\* the local calendar fields getFullYear/getMonth/getDate read (month 1..12)
LocalCivil(t, tz) == CivilFromDays((t + tz) \div MinutesPerDay)
LocalMinuteOfDay(t, tz) == (t + tz) % MinutesPerDay

\* date.toISOString().split('T')[0]: the UTC calendar date
ToIsoDate(t) == CivilFromDays(t \div MinutesPerDay)

MonthNames ==
    <<"January", "February", "March", "April", "May", "June",
      "July", "August", "September", "October", "November", "December">>

\* what formatDate returns for an Invalid Date: `NaN undefined NaN`
InvalidDateText == [day |-> -1, month |-> "undefined", year |-> -1]

\* formatDate(dateString) on a host whose offset is tz: `${day} ${month} ${year}`
formatDate(dateString, tz) ==
    IF dateString = NoDate THEN InvalidDateText
    ELSE LET c == LocalCivil(ParseIsoDate(dateString), tz)
         IN  [day |-> c[3], month |-> MonthNames[c[2]], year |-> c[1]]

\* endDate.setMonth(endDate.getMonth() + n) on the local fields of t, then the
\* time value of the result (day overflow carries into the next month)
SetMonthPlus(t, n, tz) ==
    LET c   == LocalCivil(t, tz)
        mi  == (c[2] - 1) + n
        y2  == c[1] + (mi \div 12)
        m2  == (mi % 12) + 1
        day == DaysFromCivil(y2, m2, 1) + c[3] - 1
    IN  day * MinutesPerDay + LocalMinuteOfDay(t, tz) - tz

\* lines 60-62 and 98 of the request handler: the stored internship_end_date
ComputeEndDate(startIso, duration, tz) ==
    ToIsoDate(SetMonthPlus(ParseIsoDate(startIso), duration, tz))

(***************************************************************************)
(* The tables.  Rows of `students` are created outside this repository     *)
(* (no handler inserts one): a row starts with its identity columns, and   *)
(* with course_name / company_name and certificate_id either unset or set  *)
(* by whoever provisioned it.  `courses` and `companies` are never written.*)
(***************************************************************************)
StudentIds == {1, 2}
\* the :studentId parameters the model submits to the generate route: the
\* ids of the rows and an id no row has
RequestedStudentIds == StudentIds \cup {7}
PhoneOf(sid) == IF sid = 1 THEN "9000000001" ELSE "9000000002"
Phones == {PhoneOf(sid) : sid \in StudentIds}

Courses == { [course_id |-> 11, course_name |-> "Full Stack"],
             [course_id |-> 12, course_name |-> "Data Science"] }
Companies == { [company_id |-> 21, company_name |-> "AddWise Tech Innovations"],
               [company_id |-> 22, company_name |-> "NighaTech Global"] }
\* the course and company a provisioned row names
CourseOf(sid) == IF sid = 1 THEN "Full Stack" ELSE "Data Science"
CompanyOf(sid) == IF sid = 1 THEN "AddWise Tech Innovations" ELSE "NighaTech Global"

\* offsets of the host's time zone, in minutes east of UTC
TZOffsets == {-300, 0, 330}
\* the offset of the host the server specification runs on
ServerOffsets == {330}

InitialRow(sid, provisioned, preassigned, isDeleted) ==
    [ student_id            |-> sid,
      phone_number          |-> PhoneOf(sid),
      deleted               |-> isDeleted,
      name                  |-> "Registered Name",
      eligible              |-> FALSE,
      preferred_name        |-> NULL,
      internship_start_date |-> NoDate,
      internship_end_date   |-> NoDate,
      internship_duration   |-> 0,
      course_id             |-> 0,
      company_id            |-> 0,
      course_name           |-> IF provisioned THEN CourseOf(sid) ELSE NULL,
      company_name          |-> IF provisioned THEN CompanyOf(sid) ELSE NULL,
      certificate_id        |-> preassigned,
      certificate           |-> NoCertificate ]

\* the tables the model starts from.  Student 1 is an active, provisioned
\* row, with or without a certificate_id assigned at registration; student 2
\* is like it, or lacks course_name / company_name, or is soft-deleted.
InitialTables ==
    { [sid \in StudentIds |->
          IF sid = 1
          THEN InitialRow(1, TRUE, IF pre THEN IdPool[1] ELSE NULL, FALSE)
          ELSE InitialRow(sid, kind # "unprovisioned", NULL, kind = "deleted")] :
        pre \in BOOLEAN, kind \in {"plain", "unprovisioned", "deleted"} }

(***************************************************************************)
(* State.                                                                  *)
(***************************************************************************)
VARIABLES
    students,   \* the students table: student_id -> row
    template,   \* the template asset at templatePath: "ok", "missing", "corrupt"
    tz,         \* the host's time-zone offset
    req,        \* the in-flight POST /request calls
    gen,        \* the in-flight POST /generate/:studentId calls
    rendered,   \* outcome of the last direct generateCertificate call
    dateCall,   \* argument and result of the last formatDate call
    layout,     \* what the last drawing pass of generateCertificate placed
    download,   \* the answers of GET /v1/certificates/download/:studentId
    otp_sessions, \* the otp_sessions table: rows in order of insertion
    now,        \* the clock (Date.now()), in minutes
    sms,        \* the requests made to the SMS gateway, in order
    send,       \* the in-flight WorkingOtpService.sendOTP calls
    verify      \* the in-flight WorkingOtpService.verifyOTP calls

\* the state of the OTP service
otpVars == <<otp_sessions, now, sms, send, verify>>

vars == <<students, template, tz, req, gen, rendered, dateCall,
          layout, download, otpVars>>

\* the calls in flight: two POST /request and two POST /generate/:studentId
ReqProcs == {"r1", "r2"}
GenProcs == {"g1", "g2"}

NoSnapshot == [certificate_id |-> NULL, internship_start_date |-> NoDate,
               preferred_name |-> NULL, found |-> FALSE]
NoInput == [phone_number |-> NULL, internship_start_date |-> NoDate,
            internship_duration |-> 0, course_name |-> NULL,
            company_name |-> NULL, preferred_name |-> NULL]
IdleReq == [pc |-> "idle", input |-> NoInput, existing |-> NoSnapshot,
            status |-> 0, error |-> NULL]

\* request bodies the model submits
RequestInputs ==
    { [phone_number |-> ph, internship_start_date |-> <<2025, 1, 15>>,
       internship_duration |-> 3, course_name |-> c,
       company_name |-> "AddWise Tech Innovations", preferred_name |-> n] :
        ph \in Phones, c \in {"Full Stack", "Basket Weaving"},
        n \in {"Asha Rao", "  ", ""} }
    \cup
    { [phone_number |-> PhoneOf(1), internship_start_date |-> <<2025, 1, 15>>,
       internship_duration |-> 3, course_name |-> "Full Stack",
       company_name |-> "Nowhere Ltd", preferred_name |-> "Asha Rao"] }

\* String.prototype.trim on the names the model submits
Trim(s) == IF s = "  " THEN "" ELSE s

(***************************************************************************)
(* POST /v1/certificates/request.  The lookups in `courses` and            *)
(* `companies` read tables nothing writes, so they are taken with the      *)
(* validation in the handler's first step; the read of the student row and *)
(* the update of it are separate awaits, hence separate steps.             *)
(***************************************************************************)
Respond(p, code, err) ==
    [ pc |-> "done",
      input |-> [NoInput EXCEPT !.phone_number = req[p].input.phone_number],
      existing |-> NoSnapshot, status |-> code, error |-> err ]

RespondTo(in, code, err) ==
    [ pc |-> "done", input |-> [NoInput EXCEPT !.phone_number = in.phone_number],
      existing |-> NoSnapshot, status |-> code, error |-> err ]

MissingRequestFields(in) ==
    \/ Falsy(in.phone_number)
    \/ FalsyDate(in.internship_start_date)
    \/ in.internship_duration = 0
    \/ Falsy(in.course_name)
    \/ Falsy(in.company_name)
    \/ Falsy(in.preferred_name)

CourseRows(n) == {c \in Courses : c.course_name = n}
CompanyRows(n) == {c \in Companies : c.company_name = n}

ReqUnchanged ==
    UNCHANGED <<students, template, tz, gen, rendered, dateCall,
                layout, download, otpVars>>

\* lines 22-28
ReqMissingFields(p, in) ==
    /\ req[p].pc = "idle"
    /\ MissingRequestFields(in)
    /\ req' = [req EXCEPT ![p] = RespondTo(in, 400, "Missing required fields")]
    /\ ReqUnchanged

\* lines 31-43
ReqInvalidCourse(p, in) ==
    /\ req[p].pc = "idle"
    /\ ~MissingRequestFields(in)
    /\ CourseRows(in.course_name) = {}
    /\ req' = [req EXCEPT ![p] = RespondTo(in, 400, "Invalid course selection")]
    /\ ReqUnchanged

\* lines 45-57
ReqInvalidCompany(p, in) ==
    /\ req[p].pc = "idle"
    /\ ~MissingRequestFields(in)
    /\ CourseRows(in.course_name) # {}
    /\ CompanyRows(in.company_name) = {}
    /\ req' = [req EXCEPT ![p] = RespondTo(in, 400, "Invalid company selection")]
    /\ ReqUnchanged

\* lines 7-62: the request passed validation and both lookups
ReqAccepted(p, in) ==
    /\ req[p].pc = "idle"
    /\ ~MissingRequestFields(in)
    /\ CourseRows(in.course_name) # {}
    /\ CompanyRows(in.company_name) # {}
    /\ req' = [req EXCEPT ![p] = [IdleReq EXCEPT !.pc = "check", !.input = in]]
    /\ ReqUnchanged

\* .eq('phone_number', phone_number).eq('deleted', false)
ActiveByPhone(ph) ==
    {sid \in StudentIds : students[sid].phone_number = ph /\ ~students[sid].deleted}

\* line 73: the "already submitted" test on the row just read
AlreadySubmitted(row) ==
    ~FalsyDate(row.internship_start_date) \/ ~Falsy(row.preferred_name)

\* lines 65-79, the request is rejected
ReqAlreadySubmitted(p) ==
    /\ req[p].pc = "check"
    /\ \E sid \in ActiveByPhone(req[p].input.phone_number) :
          AlreadySubmitted(students[sid])
    /\ req' = [req EXCEPT ![p] =
                  Respond(p, 400, "Certificate request already submitted")]
    /\ ReqUnchanged

\* lines 65-79, the request goes on: existingStudent is the row read, or null
ReqCheckExisting(p) ==
    /\ req[p].pc = "check"
    /\ \A sid \in ActiveByPhone(req[p].input.phone_number) :
          ~AlreadySubmitted(students[sid])
    /\ LET found == ActiveByPhone(req[p].input.phone_number)
           snap  == IF found = {} THEN NoSnapshot
                    ELSE LET row == students[CHOOSE sid \in found : TRUE]
                         IN  [certificate_id |-> row.certificate_id,
                              internship_start_date |-> row.internship_start_date,
                              preferred_name |-> row.preferred_name,
                              found |-> TRUE]
       IN  req' = [req EXCEPT ![p].pc = "update", ![p].existing = snap]
    /\ ReqUnchanged

\* line 91: existingStudent?.certificate_id || generateCertificateId(), where
\* `drawn` is the token generateCertificateId returns
CertificateIdFor(existing, drawn) ==
    IF ~Falsy(existing.certificate_id) THEN existing.certificate_id ELSE drawn

\* lines 96-104: the columns the update sets
RequestUpdate(row, in, certificateId, tzOff) ==
    [ row EXCEPT
        !.internship_start_date = in.internship_start_date,
        !.internship_end_date =
            ComputeEndDate(in.internship_start_date, in.internship_duration, tzOff),
        !.internship_duration = in.internship_duration,
        !.course_id = (CHOOSE c \in CourseRows(in.course_name) : TRUE).course_id,
        !.company_id = (CHOOSE c \in CompanyRows(in.company_name) : TRUE).company_id,
        !.preferred_name = Trim(in.preferred_name),
        !.certificate_id = certificateId ]

\* lines 81-144: the update matched a row
ReqUpdate(p, drawn) ==
    /\ req[p].pc = "update"
    /\ ActiveByPhone(req[p].input.phone_number) # {}
    /\ students' =
          [sid \in StudentIds |->
              IF sid \in ActiveByPhone(req[p].input.phone_number)
              THEN RequestUpdate(students[sid], req[p].input,
                                 CertificateIdFor(req[p].existing, drawn), tz)
              ELSE students[sid]]
    /\ req' = [req EXCEPT ![p] = Respond(p, 200, NULL)]
    /\ UNCHANGED <<template, tz, gen, rendered, dateCall, layout,
                   download, otpVars>>

\* lines 110-117: .single() finds no row to return (no active row has the
\* phone number), or the store reports an error; nothing is written
ReqUpdateFails(p) ==
    /\ req[p].pc = "update"
    /\ req' = [req EXCEPT ![p] =
                  Respond(p, 500, "Failed to submit certificate request")]
    /\ ReqUnchanged

(***************************************************************************)
(* CertificateGenerator.generateCertificate: the renderer.  The document   *)
(* it returns is modelled by what is drawn on the template's page.         *)
(***************************************************************************)
TemplateStates == {"ok", "missing", "corrupt"}
\* what can go wrong in one call whatever the input: the read of the template
\* file, or a PDF/PNG library call after it
Faults == {"none", "load", "font", "png", "save"}

\* a value interpolated in a template literal
Interpolate(x) == IF x = NULL THEN "undefined" ELSE x

\* the Error generateCertificate throws (line 138): one class, the cause's
\* message appended to a fixed prefix
GenerationError(cause) ==
    [ name |-> "Error", prefix |-> "Certificate generation failed: ",
      cause |-> cause ]
NoError == [name |-> NULL, prefix |-> NULL, cause |-> NULL]

\* the step of generateCertificate a cause comes from
TemplateCauses ==
    { "ENOENT: no such file or directory", "EIO: i/o error, read",
      "Failed to parse PDF document" }
InputCauses == { "Cannot read properties of undefined (reading 'length')" }

\* generateQRCode (lines 36-52): the payload of the PNG, or the failure of
\* QRCode.toBuffer on an absent or empty text
QRCodeFails(certificateId) == Falsy(certificateId)
QRPayload(certificateId) == certificateId

\* the template asset template/template.pdf: a single-page document
TemplatePages == 1

\* a document loaded, drawn on and saved with one more page than the template
PageCountWithAddedPage(templatePages) == templatePages + 1

\* lines 63-66 and 130: the document saved is the document loaded; the first
\* page is drawn on, no page is added or removed
PageCount(templatePages) == templatePages

Document(studentData, tzOff, by) ==
    [ pageCount      |-> PageCount(TemplatePages),
      nameText       |-> studentData.preferred_name,
      courseText     |-> Interpolate(studentData.course_name),
      companyText    |-> Interpolate(studentData.company_name),
      startText      |-> formatDate(studentData.internship_start_date, tzOff),
      endText        |-> formatDate(studentData.internship_end_date, tzOff),
      qr             |-> QRPayload(studentData.certificate_id),
      by             |-> by ]

\* lines 57-140, in the order of the code: template load, fonts, text,
\* QR code, image, serialization.  `by` tags the document with the call that
\* produced it (the encoder stamps each output with its own metadata).
generateCertificate(studentData, tzOff, tpl, fault, by) ==
    LET fail(cause) == [ok |-> FALSE, bytes |-> <<>>, error |-> GenerationError(cause)]
    IN  IF tpl = "missing" THEN fail("ENOENT: no such file or directory")
        ELSE IF fault = "load" THEN fail("EIO: i/o error, read")
        ELSE IF tpl = "corrupt" THEN fail("Failed to parse PDF document")
        ELSE IF fault = "font" THEN fail("font embedding failed")
        ELSE IF studentData.preferred_name = NULL
             THEN fail("Cannot read properties of undefined (reading 'length')")
        ELSE IF QRCodeFails(studentData.certificate_id)
             THEN fail("Failed to generate QR code")
        ELSE IF fault = "png" THEN fail("image embedding failed")
        ELSE IF fault = "save" THEN fail("serialization failed")
        ELSE [ok |-> TRUE, bytes |-> <<Document(studentData, tzOff, by)>>,
              error |-> NoError]

(***************************************************************************)
(* generateAndSaveCertificate, behind POST /v1/certificates/generate/:id.  *)
(***************************************************************************)
RequiredFields ==
    <<"preferred_name", "course_name", "internship_start_date",
      "internship_end_date", "company_name", "certificate_id">>

\* !student[field]
FieldMissing(student, field) ==
    IF field \in {"internship_start_date", "internship_end_date"}
    THEN FalsyDate(student[field])
    ELSE Falsy(student[field])

\* lines 168-169
MissingFields(student) ==
    {RequiredFields[i] : i \in {j \in 1..Len(RequiredFields) :
                                   FieldMissing(student, RequiredFields[j])}}

NoResult == [success |-> FALSE, message |-> NULL, student |-> NULL,
             certificateId |-> NULL]
IdleGen == [pc |-> "idle", studentId |-> 0, student |-> <<>>, bytes |-> <<>>,
            result |-> NoResult, replaced |-> FALSE]

Failure(p, sid, msg) ==
    [ IdleGen EXCEPT !.pc = "done", !.studentId = sid,
                     !.result = [NoResult EXCEPT !.message = msg] ]

GenUnchanged ==
    UNCHANGED <<students, template, tz, req, rendered, dateCall,
                layout, download, otpVars>>

\* select('*').eq('student_id', studentId).single(): of the row read, the
\* columns the rest of the call uses
Fetched(row) ==
    [ preferred_name |-> row.preferred_name, course_name |-> row.course_name,
      company_name |-> row.company_name,
      internship_start_date |-> row.internship_start_date,
      internship_end_date |-> row.internship_end_date,
      certificate_id |-> row.certificate_id ]

\* lines 150-159: no row has the id (or the read fails)
GenFetchFails(p, sid) ==
    /\ gen[p].pc = "idle"
    /\ sid \notin StudentIds
    /\ gen' = [gen EXCEPT ![p] = Failure(p, sid, "Failed to fetch student")]
    /\ GenUnchanged

\* lines 150-173: the row is read, a required field is missing
GenMissingFields(p, sid) ==
    /\ gen[p].pc = "idle"
    /\ sid \in StudentIds
    /\ MissingFields(students[sid]) # {}
    /\ gen' = [gen EXCEPT ![p] = Failure(p, sid, "Missing required fields")]
    /\ GenUnchanged

\* lines 150-173: the row is read and complete
GenFetch(p, sid) ==
    /\ gen[p].pc = "idle"
    /\ sid \in StudentIds
    /\ MissingFields(students[sid]) = {}
    /\ gen' = [gen EXCEPT ![p] = [IdleGen EXCEPT !.pc = "render", !.studentId = sid,
                                                 !.student = <<Fetched(students[sid])>>]]
    /\ GenUnchanged

\* a renderer that writes the document it saved over the template file
TemplateOverwritten(tpl) == "corrupt"

\* lines 62 and 130: the template file is opened for reading (fs.readFile)
\* and pdfDoc.save() returns the bytes without writing a file
TemplateAfterRender(tpl) == tpl

\* what a call of the renderer inside generateAndSaveCertificate leaves alone
RenderUnchanged ==
    UNCHANGED <<students, tz, req, rendered, dateCall, layout, download, otpVars>>

\* line 176, generateCertificate throws
GenRenderFails(p, fault) ==
    /\ gen[p].pc = "render"
    /\ LET r == generateCertificate(gen[p].student[1], tz, template, fault, p)
       IN  /\ ~r.ok
           /\ gen' = [gen EXCEPT ![p] =
                         Failure(p, gen[p].studentId, r.error.prefix)]
    /\ template' = TemplateAfterRender(template)
    /\ RenderUnchanged

\* line 176, generateCertificate returns the bytes
GenRender(p, fault) ==
    /\ gen[p].pc = "render"
    /\ LET r == generateCertificate(gen[p].student[1], tz, template, fault, p)
       IN  /\ r.ok
           /\ gen' = [gen EXCEPT ![p].pc = "store", ![p].bytes = r.bytes]
    /\ template' = TemplateAfterRender(template)
    /\ RenderUnchanged

\* the update without its .eq('student_id', ...) filter
StoreCertificateEverywhere(table, sid, student, bytes) ==
    [s \in DOMAIN table |-> [table[s] EXCEPT !.certificate = bytes]]

\* an upsert of the fetched columns together with the certificate
StoreCertificateUpsert(table, sid, student, bytes) ==
    [table EXCEPT ![sid].certificate = bytes,
                  ![sid].certificate_id = student.certificate_id,
                  ![sid].preferred_name = student.preferred_name]

\* lines 184-190: update({certificate}).eq('student_id', studentId)
StoreCertificate(table, sid, student, bytes) ==
    [table EXCEPT ![sid].certificate = bytes]

\* lines 184-205: the update succeeds and the metadata is returned
GenStore(p) ==
    /\ gen[p].pc = "store"
    /\ students' = StoreCertificate(students, gen[p].studentId,
                                    gen[p].student[1], gen[p].bytes)
    /\ gen' = [gen EXCEPT ![p] =
          [ IdleGen EXCEPT
              !.pc = "done", !.studentId = gen[p].studentId,
              !.bytes = gen[p].bytes,
              !.replaced = students[gen[p].studentId].certificate # NoCertificate,
              !.result =
                  [ success |-> TRUE,
                    message |-> "Certificate generated and saved successfully",
                    student |-> gen[p].student[1].preferred_name,
                    certificateId |-> gen[p].student[1].certificate_id ] ]]
    /\ UNCHANGED <<template, tz, req, rendered, dateCall, layout,
                   download, otpVars>>

\* a rejected update that had already replaced the column when the error
\* was reported
StoreRejectedAfterWrite(table, sid, bytes) ==
    [table EXCEPT ![sid].certificate = bytes]

\* lines 184-195: the table after an update that reports an error
StoreRejected(table, sid, bytes) == table

\* lines 192-195: the update reports an error
GenStoreFails(p) ==
    /\ gen[p].pc = "store"
    /\ students' = StoreRejected(students, gen[p].studentId, gen[p].bytes)
    /\ gen' = [gen EXCEPT ![p] =
                  Failure(p, gen[p].studentId, "Failed to save certificate")]
    /\ UNCHANGED <<template, tz, req, rendered, dateCall, layout,
                   download, otpVars>>

(***************************************************************************)
(* The other writers of the students table.                                *)
(***************************************************************************)
AdminIds == {9}
\* the profile and eligibility updates the model submits
ProfileNames == {"Registered Name", "Asha R"}
ProfileIds == {1}
EligibilityIds == {2}

OthersUnchanged ==
    UNCHANGED <<template, tz, req, gen, rendered, dateCall, layout,
                download, otpVars>>

\* PUT /v1/auth/profile/:sessionToken for a student (part_002 lines 380-404):
\* update({ name: name.trim() }).eq('student_id', userId)
UpdateProfile(sid, newName) ==
    /\ sid \notin AdminIds
    /\ ~students[sid].deleted
    /\ students[sid].name # newName
    /\ students' = [students EXCEPT ![sid].name = newName]
    /\ OthersUnchanged

\* PUT /v1/students/:studentId/eligibility (index.js lines 267-314):
\* update({ eligible }).eq('student_id', parseInt(studentId))
UpdateEligibility(sid, eligible) ==
    /\ students[sid].eligible # eligible
    /\ students' = [students EXCEPT ![sid].eligible = eligible]
    /\ OthersUnchanged

(***************************************************************************)
(* Direct calls of the renderer and of formatDate.                         *)
(***************************************************************************)
NoStudentData ==
    [ preferred_name |-> NULL, course_name |-> NULL, company_name |-> NULL,
      internship_start_date |-> NoDate, internship_end_date |-> NoDate,
      certificate_id |-> NULL ]
NotRendered ==
    [ called |-> FALSE, input |-> NoStudentData, fault |-> "none", ok |-> FALSE,
      bytes |-> <<>>, error |-> NoError ]

\* the studentData records the model hands to generateCertificate: complete,
\* or with one field absent or (for the text fields) empty
RenderInputs ==
    { in \in [ preferred_name : {"Asha Rao", NULL, ""},
               course_name : {"Full Stack", NULL},
               company_name : {"AddWise Tech Innovations", NULL},
               internship_start_date : {<<2025, 1, 15>>, NoDate},
               internship_end_date : {<<2025, 4, 15>>, NoDate},
               certificate_id : {IdPool[1], NULL, ""} ] :
        Cardinality(MissingFields(in)) <= 1 }

RenderDirect(studentData, fault) ==
    /\ LET r == generateCertificate(studentData, tz, template, fault, "direct")
       IN  rendered' = [ called |-> TRUE, input |-> studentData, fault |-> fault,
                         ok |-> r.ok, bytes |-> r.bytes, error |-> r.error ]
    /\ template' = TemplateAfterRender(template)
    /\ UNCHANGED <<students, tz, req, gen, dateCall, layout, download, otpVars>>

\* the ISO dates the date specification enumerates
IsoDates ==
    { x \in ((MaxYear - 1)..MaxYear) \X (1..12) \X (1..31) :
        x[3] <= DaysInMonth(x[1], x[2]) }

NoDateCall == [called |-> FALSE, arg |-> NoDate, tz |-> 0, result |-> InvalidDateText]

\* formatDate(dateString) on a host at offset z
FormatDateCall(dateString, z) ==
    /\ ~dateCall.called
    /\ dateCall' = [ called |-> TRUE, arg |-> dateString, tz |-> z,
                     result |-> formatDate(dateString, z) ]
    /\ UNCHANGED <<students, template, tz, req, gen, rendered, layout,
                   download, otpVars>>

(***************************************************************************)
(* The drawing pass of generateCertificate (lines 76-125): where the three *)
(* text lines and the QR image are placed on the template's first page.    *)
(* Coordinates are PDF points with the origin at the bottom-left corner.   *)
(* The text positions are kept doubled (x2 = 2 * x, y2 = 2 * y), so that   *)
(* width / 2 and height / 2 stay exact for odd page sizes.                 *)
(***************************************************************************)
\* `${day} ${month} ${year}` as formatDate returns it (line 30)
DateString(d) ==
    IF d = InvalidDateText THEN "NaN undefined NaN"
    ELSE ToString(d.day) \o " " \o d.month \o " " \o ToString(d.year)

\* line 95
CompletionText(studentData) ==
    "has successfully completed a " \o Interpolate(studentData.course_name)
        \o " Internship at " \o Interpolate(studentData.company_name) \o ","

\* line 105
DateText(studentData, tzOff) ==
    "held from " \o DateString(formatDate(studentData.internship_start_date, tzOff))
        \o " to " \o DateString(formatDate(studentData.internship_end_date, tzOff))
        \o "."

\* the multipliers of the text length in the x offsets of lines 87, 97, 107
NameCharUnits == 12
TextCharUnits == 4
\* qrSize (line 119) and the margin of lines 121-122
QrSize == 80
QrMargin == 20

\* line 87: x = width / 2 - preferred_name.length * 12, doubled
NameX2(width, text) == width - 2 * (Len(text) * NameCharUnits)
\* lines 97 and 107: x = width / 2 - text.length * 4, doubled
TextX2(width, text) == width - 2 * (Len(text) * TextCharUnits)

\* the rectangle measured from the top edge down, as in screen coordinates
QRBoxFromTop(width, height) ==
    [ x |-> width - QrSize - QrMargin, y |-> QrMargin,
      width |-> QrSize, height |-> QrSize ]

\* lines 119-125: the rectangle drawImage is given
QRBox(width, height) ==
    [ x |-> width - QrSize - QrMargin, y |-> height - QrSize - QrMargin,
      width |-> QrSize, height |-> QrSize ]

\* the page sizes of the templates the model draws on (width, height)
PageSizes == { <<842, 595>>, <<595, 842>>, <<612, 792>>, <<841, 594>> }

\* the studentData records the model draws
LayoutInputs ==
    [ preferred_name : {"A", "Asha Rao", "Venkata Subramanian Iyer"},
      course_name : {"Full Stack", "Data Science"},
      company_name : {"AddWise Tech Innovations", "NighaTech Global"},
      internship_start_date : {<<2025, 1, 15>>, <<2025, 9, 1>>},
      internship_end_date : {<<2025, 4, 15>>, <<2025, 12, 31>>},
      certificate_id : {IdPool[1]} ]

NotLaidOut ==
    [ called |-> FALSE, width |-> 0, height |-> 0, input |-> NoStudentData,
      nameX2 |-> 0, nameY2 |-> 0, completionText |-> "", completionX2 |-> 0,
      completionY2 |-> 0, dateText |-> "", dateX2 |-> 0, dateY2 |-> 0,
      qr |-> [x |-> 0, y |-> 0, width |-> 0, height |-> 0] ]

\* lines 76-125 on a first page of the given size
Draw(studentData, tzOff, width, height) ==
    [ called         |-> TRUE, width |-> width, height |-> height,
      input          |-> studentData,
      nameX2         |-> NameX2(width, studentData.preferred_name),
      nameY2         |-> height + 100,
      completionText |-> CompletionText(studentData),
      completionX2   |-> TextX2(width, CompletionText(studentData)),
      completionY2   |-> height + 20,
      dateText       |-> DateText(studentData, tzOff),
      dateX2         |-> TextX2(width, DateText(studentData, tzOff)),
      dateY2         |-> height - 40,
      qr             |-> QRBox(width, height) ]

\* one drawing pass, on a template whose first page has the given size
DrawPage(studentData, size) ==
    /\ layout' = Draw(studentData, tz, size[1], size[2])
    /\ UNCHANGED <<students, template, tz, req, gen, rendered, dateCall,
                   download, otpVars>>

(***************************************************************************)
(* GET /v1/certificates/download/:studentId (index.js lines 174-204) over  *)
(* CertificateGenerator.getCertificate (lines 216-242): one select of the  *)
(* row, then the response.                                                 *)
(***************************************************************************)
\* a column value interpolated in a template literal: SQL NULL arrives as
\* the JS value null
InterpolateColumn(x) == IF x = NULL THEN "null" ELSE x

\* index.js line 191: the filename of the Content-Disposition header
Filename(studentName, certificateId) ==
    InterpolateColumn(studentName) \o "_Certificate_"
        \o InterpolateColumn(certificateId) \o ".pdf"

NoDownload ==
    [ called |-> FALSE, studentId |-> 0, status |-> 0, filename |-> "",
      body |-> <<>>, details |-> NULL ]

\* getCertificate throws: no row has the id (.single() reports an error), or
\* the row holds no certificate; the route answers 500 with the message
DownloadFails(sid) ==
    /\ \/ sid \notin StudentIds
       \/ /\ sid \in StudentIds
          /\ students[sid].certificate = NoCertificate
    /\ download' =
          [ NoDownload EXCEPT
              !.called = TRUE, !.studentId = sid, !.status = 500,
              !.details = IF sid \notin StudentIds
                          THEN "Failed to fetch certificate"
                          ELSE "Certificate not found" ]
    /\ UNCHANGED <<students, template, tz, req, gen, rendered, dateCall, layout,
                   otpVars>>

\* getCertificate returns the three columns of the row and the route sends
\* the bytes under the filename built from the other two
Download(sid) ==
    /\ sid \in StudentIds
    /\ students[sid].certificate # NoCertificate
    /\ download' =
          [ NoDownload EXCEPT
              !.called = TRUE, !.studentId = sid, !.status = 200,
              !.filename = Filename(students[sid].preferred_name,
                                    students[sid].certificate_id),
              !.body = students[sid].certificate ]
    /\ UNCHANGED <<students, template, tz, req, gen, rendered, dateCall, layout,
                   otpVars>>

(***************************************************************************)
(* WorkingOtpService (test-otp.js): phone numbers.  A phone number given   *)
(* by a caller is a sequence of characters; the phone_number columns hold  *)
(* the string of the formatted number.                                     *)
(***************************************************************************)
DigitChars == {"0", "1", "2", "3", "4", "5", "6", "7", "8", "9"}

\* phoneNumber.replace(/[\s\-\+]/g, '')
CleanNumber(phoneNumber) ==
    SelectSeq(phoneNumber, LAMBDA c : c \notin {" ", "-", "+"})

\* lines 27-31: /^[6-9]\d{9}$/ on the cleaned number
validatePhoneNumber(phoneNumber) ==
    LET cleanNumber == CleanNumber(phoneNumber)
    IN  /\ Len(cleanNumber) = 10
        /\ cleanNumber[1] \in {"6", "7", "8", "9"}
        /\ \A i \in 1..Len(cleanNumber) : cleanNumber[i] \in DigitChars

\* lines 34-40: the country code 91 is dropped from a 12-character number
formatPhoneNumber(phoneNumber) ==
    LET cleanNumber == CleanNumber(phoneNumber)
    IN  IF /\ Len(cleanNumber) = 12
           /\ cleanNumber[1] = "9" /\ cleanNumber[2] = "1"
        THEN SubSeq(cleanNumber, 3, 12)
        ELSE cleanNumber

\* the string a sequence of characters spells
RECURSIVE StringOf(_)
StringOf(chars) ==
    IF chars = <<>> THEN "" ELSE Head(chars) \o StringOf(Tail(chars))

\* the admin table: never written by a handler
AdminRows == { [admin_id |-> 9, name |-> "Admin", phone_number |-> "9000000009"] }

\* the ten characters of the numbers of the tables, by their last digit
NumberEnding(last) == <<"9", "0", "0", "0", "0", "0", "0", "0", "0", last>>

\* the phoneNumber arguments the model passes to sendOTP: the numbers of
\* student 1, student 2 and the admin, student 1's number written with the
\* country code, a well-formed number no table holds, and malformed ones
SendPhones ==
    { NumberEnding("1"), NumberEnding("2"), NumberEnding("9"), NumberEnding("5"),
      <<"+", "9", "1", " ">> \o NumberEnding("1"),
      <<"9", "1">> \o NumberEnding("1"),
      <<"5", "0", "0", "0", "0", "0", "0", "0", "0", "1">>,
      <<"9", "0", "0", "0", "0", "0", "0", "0", "1">>,
      <<"9", "O", "0", "0", "0", "0", "0", "0", "0", "1">> }
SendRoles == {"admin", "user", "student", NULL}

\* the sendOTP arguments of the calls the model runs side by side: student
\* 1's number in two spellings, a number no table holds and a malformed one
ConcurrentSendPhones ==
    { NumberEnding("1"), <<"9", "1">> \o NumberEnding("1"), NumberEnding("5"),
      <<"9", "0", "0", "0", "0", "0", "0", "0", "1">> }

\* the lookup without .eq('deleted', false) on the students table
validatePhoneAmongAllStudents(table, phone, role) ==
    LET admins == {a \in AdminRows : a.phone_number = phone}
        any == {sid \in DOMAIN table : table[sid].phone_number = phone}
        asAdmin == [exists |-> TRUE, userType |-> "admin"]
        asStudent == [exists |-> TRUE, userType |-> "student"]
        none == [exists |-> FALSE, userType |-> NULL]
    IN  IF role = "admin"
        THEN (IF Cardinality(admins) = 1 THEN asAdmin ELSE none)
        ELSE IF role \in {"user", "student"}
        THEN (IF Cardinality(any) = 1 THEN asStudent ELSE none)
        ELSE IF Cardinality(admins) = 1 THEN asAdmin
        ELSE IF Cardinality(any) = 1 THEN asStudent
        ELSE none

\* lines 43-136: the row validatePhoneInDatabase finds for the role, as
\* {exists, userType}; .single() finds a row when exactly one matches
validatePhoneInDatabase(table, phone, role) ==
    LET admins == {a \in AdminRows : a.phone_number = phone}
        active == {sid \in DOMAIN table : /\ table[sid].phone_number = phone
                                          /\ ~table[sid].deleted}
        asAdmin == [exists |-> TRUE, userType |-> "admin"]
        asStudent == [exists |-> TRUE, userType |-> "student"]
        none == [exists |-> FALSE, userType |-> NULL]
    IN  IF role = "admin"
        THEN (IF Cardinality(admins) = 1 THEN asAdmin ELSE none)
        ELSE IF role \in {"user", "student"}
        THEN (IF Cardinality(active) = 1 THEN asStudent ELSE none)
        ELSE IF Cardinality(admins) = 1 THEN asAdmin
        ELSE IF Cardinality(active) = 1 THEN asStudent
        ELSE none

(***************************************************************************)
(* WorkingOtpService: the otp_sessions table, the clock, storeOTP and      *)
(* sendOTP.  Times are minutes; a row's session_id is the call that        *)
(* inserted it.                                                            *)
(***************************************************************************)
\* last minute of the clock, and the minutes one step of the clock advances
MaxClock == 15
ClockStep == 5
\* line 141: expiresAt = Date.now() + 10 * 60 * 1000
OtpLifetime == 10

\* the codes generateOTP (lines 22-24) can draw, in the model
OtpCodes == {"123456", "654321"}

SendProcs == {"s1", "s2"}
VerifyProcs == {"v1", "v2"}

OtpRow(id, phone, code, expiresAt, createdAt) ==
    [ session_id |-> id, phone_number |-> phone, otp_code |-> code,
      expires_at |-> expiresAt, is_verified |-> FALSE, created_at |-> createdAt ]

IdleSend ==
    [ pc |-> "idle", phoneNumber |-> <<>>, role |-> NULL, formattedPhone |-> NULL,
      userType |-> NULL, otp |-> NULL, storeCalledAt |-> 0, expiresAt |-> 0,
      success |-> FALSE,
      smsSuccess |-> FALSE, error |-> NULL ]

\* what no step of the OTP service touches
OtpUnchanged ==
    UNCHANGED <<students, template, tz, req, gen, rendered, dateCall, layout,
                download>>

\* the clock advances
Tick ==
    /\ now + ClockStep <= MaxClock
    /\ now' = now + ClockStep
    /\ UNCHANGED <<otp_sessions, sms, send, verify>>
    /\ OtpUnchanged

Thrown(p, phoneNumber, role, msg) ==
    [ IdleSend EXCEPT !.pc = "done", !.phoneNumber = phoneNumber, !.role = role,
                      !.error = msg ]

\* sendOTP lines 284-288: the formatted number fails validatePhoneNumber
SendInvalidFormat(p, phoneNumber, role) ==
    /\ send[p].pc = "idle"
    /\ ~validatePhoneNumber(formatPhoneNumber(phoneNumber))
    /\ send' = [send EXCEPT ![p] =
                   Thrown(p, phoneNumber, role, "Invalid phone number format")]
    /\ UNCHANGED <<otp_sessions, sms, now, verify>>
    /\ OtpUnchanged

\* sendOTP lines 291-296: validatePhoneInDatabase finds no row
SendNotRegistered(p, phoneNumber, role) ==
    /\ send[p].pc = "idle"
    /\ validatePhoneNumber(formatPhoneNumber(phoneNumber))
    /\ ~validatePhoneInDatabase(students,
            StringOf(formatPhoneNumber(phoneNumber)), role).exists
    /\ send' = [send EXCEPT ![p] =
                   Thrown(p, phoneNumber, role, "Phone number not registered")]
    /\ UNCHANGED <<otp_sessions, sms, now, verify>>
    /\ OtpUnchanged

\* sendOTP lines 284-302: the number is registered and an OTP is drawn
SendValidated(p, phoneNumber, role, otp) ==
    /\ send[p].pc = "idle"
    /\ validatePhoneNumber(formatPhoneNumber(phoneNumber))
    /\ LET phone == StringOf(formatPhoneNumber(phoneNumber))
           found == validatePhoneInDatabase(students, phone, role)
       IN  /\ found.exists
           /\ send' = [send EXCEPT ![p] =
                 [ IdleSend EXCEPT !.pc = "invalidate", !.phoneNumber = phoneNumber,
                                   !.role = role, !.formattedPhone = phone,
                                   !.userType = found.userType, !.otp = otp ]]
    /\ UNCHANGED <<otp_sessions, sms, now, verify>>
    /\ OtpUnchanged

\* the rows after update({is_verified: true}).eq(phone_number).eq(is_verified, false)
Invalidate(rows, phone) ==
    { IF r.phone_number = phone THEN [r EXCEPT !.is_verified = TRUE] ELSE r :
        r \in rows }

\* storeOTP lines 141-148: expiresAt is computed and the earlier rows of the
\* number are marked verified; the outcome of the update is not looked at,
\* so an update that fails leaves the rows and the call goes on
StoreInvalidate(p, updateFails) ==
    /\ send[p].pc = "invalidate"
    /\ otp_sessions' = IF updateFails THEN otp_sessions
                       ELSE Invalidate(otp_sessions, send[p].formattedPhone)
    /\ send' = [send EXCEPT ![p].pc = "insert", ![p].storeCalledAt = now,
                            ![p].expiresAt = now + OtpLifetime]
    /\ UNCHANGED <<sms, now, verify>>
    /\ OtpUnchanged

\* storeOTP lines 151-160: the new row is inserted
StoreInsert(p) ==
    /\ send[p].pc = "insert"
    /\ otp_sessions' = otp_sessions \cup
          { OtpRow(p, send[p].formattedPhone, send[p].otp, send[p].expiresAt, now) }
    /\ send' = [send EXCEPT ![p].pc = "sms"]
    /\ UNCHANGED <<sms, now, verify>>
    /\ OtpUnchanged

\* storeOTP lines 162-165: the insert reports an error and sendOTP rethrows
StoreInsertFails(p) ==
    /\ send[p].pc = "insert"
    /\ send' = [send EXCEPT ![p].pc = "done", ![p].error = "Failed to store OTP"]
    /\ UNCHANGED <<otp_sessions, sms, now, verify>>
    /\ OtpUnchanged

\* sendOtpSms lines 218-276 and sendOTP lines 309-316: the gateway is asked
\* to deliver the code; whatever it answers, sendOTP returns success
SendSms(p, delivered) ==
    /\ send[p].pc = "sms"
    /\ sms' = Append(sms, [ receiver |-> send[p].formattedPhone,
                            otp |-> send[p].otp, delivered |-> delivered ])
    /\ send' = [send EXCEPT ![p].pc = "done", ![p].success = TRUE,
                            ![p].smsSuccess = delivered]
    /\ UNCHANGED <<otp_sessions, now, verify>>
    /\ OtpUnchanged

\* a route that answers 400 whenever the gateway did not deliver
SendOtpAnswerOnlyDelivered(result) ==
    IF result.error # NULL
    THEN [ status |-> IF result.error = "Phone number not registered"
                      THEN 400 ELSE 500,
           success |-> FALSE, smsStatus |-> FALSE ]
    ELSE IF ~(result.success /\ result.smsSuccess)
    THEN [ status |-> 400, success |-> FALSE, smsStatus |-> FALSE ]
    ELSE [ status |-> 200, success |-> TRUE, smsStatus |-> TRUE ]

\* POST /send-otp lines 37-89: the answer to what sendOTP returned or threw;
\* smsStatus is smsResult.success, and a false one still answers 200
SendOtpAnswer(result) ==
    IF result.error # NULL
    THEN [ status |-> IF result.error = "Phone number not registered"
                      THEN 400 ELSE 500,
           success |-> FALSE, smsStatus |-> FALSE ]
    ELSE IF ~result.success
    THEN [ status |-> 400, success |-> FALSE, smsStatus |-> FALSE ]
    ELSE [ status |-> 200, success |-> TRUE, smsStatus |-> result.smsSuccess ]

(***************************************************************************)
(* WorkingOtpService.verifyOTP and cleanupExpiredOTPs.                     *)
(***************************************************************************)
IdleVerify ==
    [ pc |-> "idle", phoneNumber |-> NULL, otp |-> NULL, otpRecord |-> <<>>,
      checkedAt |-> 0, isValid |-> FALSE, message |-> NULL, error |-> NULL ]

\* the (phoneNumber, otp) arguments the model passes to verifyOTP
VerifyPhones == {"9000000001", "9000000009"}

\* the select without .gt('expires_at', now)
MatchingWhateverAge(rows, phoneNumber, otp, t) ==
    { r \in rows : /\ r.phone_number = phoneNumber
                   /\ r.otp_code = otp
                   /\ ~r.is_verified }

\* lines 178-187: the rows the select matches at time t
Matching(rows, phoneNumber, otp, t) ==
    { r \in rows : /\ r.phone_number = phoneNumber
                   /\ r.otp_code = otp
                   /\ ~r.is_verified
                   /\ r.expires_at > t }

\* .order('created_at', { ascending: false }).limit(1): a latest match
Latest(matches) ==
    { r \in matches : \A o \in matches : o.created_at <= r.created_at }

\* a verifyOTP that, on a failed attempt, marks the rows of the number verified
VerifyRejectedInvalidates(p, phoneNumber, otp) ==
    /\ verify[p].pc = "idle"
    /\ Matching(otp_sessions, phoneNumber, otp, now) = {}
    /\ verify' = [verify EXCEPT ![p] =
          [ IdleVerify EXCEPT !.pc = "done", !.phoneNumber = phoneNumber,
                              !.otp = otp, !.checkedAt = now,
                              !.message = "Invalid or expired OTP" ]]
    /\ otp_sessions' = Invalidate(otp_sessions, phoneNumber)
    /\ UNCHANGED <<now, sms, send>>
    /\ OtpUnchanged

\* lines 178-192: no row matches (.single() reports an error) and the call
\* returns isValid: false
VerifyRejected(p, phoneNumber, otp) ==
    /\ verify[p].pc = "idle"
    /\ Matching(otp_sessions, phoneNumber, otp, now) = {}
    /\ verify' = [verify EXCEPT ![p] =
          [ IdleVerify EXCEPT !.pc = "done", !.phoneNumber = phoneNumber,
                              !.otp = otp, !.checkedAt = now,
                              !.message = "Invalid or expired OTP" ]]
    /\ UNCHANGED <<otp_sessions, now, sms, send>>
    /\ OtpUnchanged

\* lines 178-187: the latest matching row is read
VerifySelect(p, phoneNumber, otp) ==
    /\ verify[p].pc = "idle"
    /\ \E r \in Latest(Matching(otp_sessions, phoneNumber, otp, now)) :
          verify' = [verify EXCEPT ![p] =
              [ IdleVerify EXCEPT !.pc = "mark", !.phoneNumber = phoneNumber,
                                  !.otp = otp, !.otpRecord = <<r>>,
                                  !.checkedAt = now ]]
    /\ UNCHANGED <<otp_sessions, now, sms, send>>
    /\ OtpUnchanged

\* the rows after update({is_verified: true}).eq('session_id', id)
MarkVerified(rows, id) ==
    { IF r.session_id = id THEN [r EXCEPT !.is_verified = TRUE] ELSE r :
        r \in rows }

\* lines 195-210: the row read is marked verified and the call returns
\* isValid: true with that row
VerifyMark(p) ==
    /\ verify[p].pc = "mark"
    /\ otp_sessions' = MarkVerified(otp_sessions, verify[p].otpRecord[1].session_id)
    /\ verify' = [verify EXCEPT ![p].pc = "done", ![p].isValid = TRUE,
                                ![p].message = "OTP verified successfully"]
    /\ UNCHANGED <<now, sms, send>>
    /\ OtpUnchanged

\* lines 200-203: the update reports an error and verifyOTP throws
VerifyMarkFails(p) ==
    /\ verify[p].pc = "mark"
    /\ verify' = [verify EXCEPT ![p].pc = "done",
                                ![p].error = "Failed to update OTP status"]
    /\ UNCHANGED <<otp_sessions, now, sms, send>>
    /\ OtpUnchanged

\* cleanupExpiredOTPs lines 325-343: delete().lt('expires_at', now)
CleanupExpiredOTPs ==
    /\ \E r \in otp_sessions : r.expires_at < now
    /\ otp_sessions' = { r \in otp_sessions : ~(r.expires_at < now) }
    /\ UNCHANGED <<now, sms, send, verify>>
    /\ OtpUnchanged

(***************************************************************************)
(* Specifications.                                                         *)
(***************************************************************************)
\* no call of the renderer's parts, of the download route or of the OTP
\* service has been made
NothingCalled ==
    /\ req = [p \in ReqProcs |-> IdleReq]
    /\ gen = [p \in GenProcs |-> IdleGen]
    /\ rendered = NotRendered
    /\ dateCall = NoDateCall
    /\ layout = NotLaidOut
    /\ download = NoDownload
    /\ now = 0
    /\ sms = <<>>
    /\ send = [p \in SendProcs |-> IdleSend]
    /\ verify = [p \in VerifyProcs |-> IdleVerify]

Init ==
    /\ students \in InitialTables
    /\ template = "ok"
    /\ tz \in ServerOffsets
    /\ otp_sessions = {}
    /\ NothingCalled

Next ==
    \/ \E p \in ReqProcs, in \in RequestInputs : ReqMissingFields(p, in)
    \/ \E p \in ReqProcs, in \in RequestInputs : ReqInvalidCourse(p, in)
    \/ \E p \in ReqProcs, in \in RequestInputs : ReqInvalidCompany(p, in)
    \/ \E p \in ReqProcs, in \in RequestInputs : ReqAccepted(p, in)
    \/ \E p \in ReqProcs : ReqAlreadySubmitted(p)
    \/ \E p \in ReqProcs : ReqCheckExisting(p)
    \/ \E p \in ReqProcs, drawn \in CertificateIds : ReqUpdate(p, drawn)
    \/ \E p \in ReqProcs : ReqUpdateFails(p)
    \/ \E p \in GenProcs, sid \in RequestedStudentIds : GenFetchFails(p, sid)
    \/ \E p \in GenProcs, sid \in StudentIds : GenMissingFields(p, sid)
    \/ \E p \in GenProcs, sid \in StudentIds : GenFetch(p, sid)
    \/ \E p \in GenProcs, fault \in Faults : GenRenderFails(p, fault)
    \/ \E p \in GenProcs, fault \in Faults : GenRender(p, fault)
    \/ \E p \in GenProcs : GenStore(p)
    \/ \E p \in GenProcs : GenStoreFails(p)
    \/ \E sid \in ProfileIds, n \in ProfileNames : UpdateProfile(sid, n)
    \/ \E sid \in EligibilityIds, e \in BOOLEAN : UpdateEligibility(sid, e)

Spec == Init /\ [][Next]_vars

\* The renderer on its own: direct calls of generateCertificate, and
\* generateAndSaveCertificate on tables as POST /request leaves them, on any
\* host offset and with the template asset in any state.
RequestedTables(z) ==
    { [tbl EXCEPT ![1] = RequestUpdate(tbl[1], in, id, z)] :
        tbl \in {t \in InitialTables : /\ t[1].certificate_id = NULL
                                        /\ t[2].course_name # NULL
                                        /\ ~t[2].deleted},
        in \in {i \in RequestInputs : /\ i.phone_number = PhoneOf(1)
                                      /\ ~MissingRequestFields(i)
                                      /\ CourseRows(i.course_name) # {}
                                      /\ CompanyRows(i.company_name) # {}},
        id \in CertificateIds }

\* an otp_sessions table with a row a sendOTP call left for student 1
IssuedSessions == { OtpRow("s0", PhoneOf(1), "123456", OtpLifetime, 0) }

InitRender ==
    /\ tz \in TZOffsets
    /\ template \in TemplateStates
    /\ students \in InitialTables \cup RequestedTables(tz)
    /\ otp_sessions \in {{}, IssuedSessions}
    /\ NothingCalled

\* one generateAndSaveCertificate call at a time beside the direct calls
RenderProcs == {"g1"}

NextRender ==
    \/ \E in \in RenderInputs, fault \in Faults : RenderDirect(in, fault)
    \/ \E p \in RenderProcs, sid \in RequestedStudentIds : GenFetchFails(p, sid)
    \/ \E p \in RenderProcs, sid \in StudentIds : GenMissingFields(p, sid)
    \/ \E p \in RenderProcs, sid \in StudentIds : GenFetch(p, sid)
    \/ \E p \in RenderProcs, fault \in Faults : GenRenderFails(p, fault)
    \/ \E p \in RenderProcs, fault \in Faults : GenRender(p, fault)
    \/ \E p \in RenderProcs : GenStore(p)
    \/ \E p \in RenderProcs : GenStoreFails(p)

SpecRender == InitRender /\ [][NextRender]_vars

\* formatDate on its own: every ISO date of the enumerated years on every
\* host offset.
NextDate == \E d \in IsoDates, z \in TZOffsets : FormatDateCall(d, z)

InitDate == Init /\ students \in {t \in InitialTables : t[2].deleted}

SpecDate == InitDate /\ [][NextDate]_vars

\* The drawing pass on its own: every studentData of LayoutInputs on every
\* page size, on any host offset.
InitLayout ==
    /\ students \in {t \in InitialTables : t[2].deleted}
    /\ template = "ok"
    /\ tz \in TZOffsets
    /\ otp_sessions = {}
    /\ NothingCalled

NextLayout == \E in \in LayoutInputs, size \in PageSizes : DrawPage(in, size)

SpecLayout == InitLayout /\ [][NextLayout]_vars

\* the start on the table whose first student has not requested yet and
\* whose second student is soft-deleted
InitOneTable ==
    /\ Init
    /\ students[1].certificate_id = NULL
    /\ students[2].deleted

\* Requests, one generation at a time and downloads.

NextDownload ==
    \/ \E p \in ReqProcs, in \in RequestInputs : ReqMissingFields(p, in)
    \/ \E p \in ReqProcs, in \in RequestInputs : ReqInvalidCourse(p, in)
    \/ \E p \in ReqProcs, in \in RequestInputs : ReqInvalidCompany(p, in)
    \/ \E p \in ReqProcs, in \in RequestInputs : ReqAccepted(p, in)
    \/ \E p \in ReqProcs : ReqAlreadySubmitted(p)
    \/ \E p \in ReqProcs : ReqCheckExisting(p)
    \/ \E p \in ReqProcs, drawn \in CertificateIds : ReqUpdate(p, drawn)
    \/ \E p \in ReqProcs : ReqUpdateFails(p)
    \/ \E p \in RenderProcs, sid \in RequestedStudentIds : GenFetchFails(p, sid)
    \/ \E p \in RenderProcs, sid \in StudentIds : GenMissingFields(p, sid)
    \/ \E p \in RenderProcs, sid \in StudentIds : GenFetch(p, sid)
    \/ \E p \in RenderProcs, fault \in Faults : GenRenderFails(p, fault)
    \/ \E p \in RenderProcs, fault \in Faults : GenRender(p, fault)
    \/ \E p \in RenderProcs : GenStore(p)
    \/ \E p \in RenderProcs : GenStoreFails(p)
    \/ \E sid \in RequestedStudentIds : DownloadFails(sid)
    \/ \E sid \in StudentIds : Download(sid)

SpecDownload == InitOneTable /\ [][NextDownload]_vars

\* The OTP service on its own, on a table whose second student is
\* soft-deleted.  Its calls side by side at one instant: two sendOTP calls
\* and two verifyOTP calls.
SendSteps(p) ==
    \/ \E updateFails \in BOOLEAN : StoreInvalidate(p, updateFails)
    \/ StoreInsert(p)
    \/ StoreInsertFails(p)
    \/ \E delivered \in BOOLEAN : SendSms(p, delivered)

VerifySteps(p) ==
    \/ \E ph \in VerifyPhones, otp \in OtpCodes : VerifyRejected(p, ph, otp)
    \/ \E ph \in VerifyPhones, otp \in OtpCodes : VerifySelect(p, ph, otp)
    \/ VerifyMark(p)
    \/ VerifyMarkFails(p)

ConcurrentSend(p) ==
    \/ \E ph \in ConcurrentSendPhones, role \in {"student"} :
          SendInvalidFormat(p, ph, role)
    \/ \E ph \in ConcurrentSendPhones, role \in {"student"} :
          SendNotRegistered(p, ph, role)
    \/ \E ph \in ConcurrentSendPhones, role \in {"student"}, otp \in OtpCodes :
          SendValidated(p, ph, role, otp)

NextOtp ==
    \/ \E p \in SendProcs : ConcurrentSend(p)
    \/ \E p \in SendProcs : SendSteps(p)
    \/ \E p \in VerifyProcs : VerifySteps(p)

SpecOtp == InitOneTable /\ [][NextOtp]_vars

\* The OTP service over time: one call of each kind, on a table that is
\* empty or holds a row issued earlier, while the clock advances and the
\* cleanup deletes expired rows.
InitExpiry ==
    /\ students \in {t \in InitialTables : /\ t[1].certificate_id = NULL
                                           /\ t[2].deleted}
    /\ template = "ok"
    /\ tz \in ServerOffsets
    /\ otp_sessions \in {{}, IssuedSessions}
    /\ NothingCalled

NextExpiry ==
    \/ Tick
    \/ CleanupExpiredOTPs
    \/ \E p \in {"s1"} : ConcurrentSend(p)
    \/ \E p \in {"s1"} : SendSteps(p)
    \/ \E p \in {"v1"} : VerifySteps(p)

SpecExpiry == InitExpiry /\ [][NextExpiry]_vars

\* sendOTP on its own: two calls, with every phoneNumber and role of
\* SendPhones and SendRoles.
NextSend ==
    \/ \E p \in SendProcs, ph \in SendPhones, role \in SendRoles :
          SendInvalidFormat(p, ph, role)
    \/ \E p \in SendProcs, ph \in SendPhones, role \in SendRoles :
          SendNotRegistered(p, ph, role)
    \/ \E p \in SendProcs, ph \in SendPhones, role \in SendRoles, otp \in OtpCodes :
          SendValidated(p, ph, role, otp)
    \/ \E p \in SendProcs : SendSteps(p)

SpecSend == InitOneTable /\ [][NextSend]_vars

\* POST /request on its own: one request of the first student, with every
\* start date of IsoDates and every duration up to MaxDuration, on any host
\* offset.
EndDateInputs ==
    { [phone_number |-> PhoneOf(1), internship_start_date |-> d,
       internship_duration |-> n, course_name |-> "Full Stack",
       company_name |-> "AddWise Tech Innovations", preferred_name |-> "Asha Rao"] :
        d \in IsoDates, n \in 1..MaxDuration }

NextEndDate ==
    \/ \E p \in {"r1"}, in \in EndDateInputs : ReqAccepted(p, in)
    \/ \E p \in {"r1"} : ReqCheckExisting(p)
    \/ \E p \in {"r1"}, drawn \in {IdPool[1]} : ReqUpdate(p, drawn)
    \/ \E p \in {"r1"} : ReqUpdateFails(p)

SpecEndDate == InitLayout /\ [][NextEndDate]_vars


(***************************************************************************)
(* Properties.                                                             *)
(***************************************************************************)
Stored(sid) == students[sid].certificate # NoCertificate
StoredDoc(sid) == students[sid].certificate[1]
HasId(sid) == ~Falsy(students[sid].certificate_id)
Succeeded(p) == gen[p].pc = "done" /\ gen[p].result.success
Failed(p) == gen[p].pc = "done" /\ ~gen[p].result.success
Answered(p, code) == req[p].pc = "done" /\ req[p].status = code

\* C1: for every student with a stored certificate, the identifier in the QR
\* code of the stored document, the certificateId in the metadata returned by
\* the generateAndSaveCertificate call that stored it, and the certificate_id
\* of the row the document is kept in and looked up from are one value.
C1_IdentifiersAgree ==
    \A sid \in StudentIds :
        Stored(sid) =>
            /\ StoredDoc(sid).qr = students[sid].certificate_id
            /\ \A p \in GenProcs :
                  (Succeeded(p) /\ StoredDoc(sid).by = p) =>
                      gen[p].result.certificateId = StoredDoc(sid).qr

\* C2: once a row holds a certificate_id, no step of any handler changes it.
C2_CertificateIdImmutable ==
    [][\A sid \in StudentIds :
          HasId(sid) => students'[sid].certificate_id = students[sid].certificate_id]_vars

\* C3: no two student rows hold the same certificate_id.
C3_CertificateIdsUnique ==
    \A s1, s2 \in StudentIds :
        (s1 # s2 /\ HasId(s1)) =>
            students[s1].certificate_id # students[s2].certificate_id

\* C4: for one phone number at most one POST /request call is answered 200
\* (and so writes the record); no second call on that number succeeds.
C4_RequestOnlyOnce ==
    \A p, q \in ReqProcs :
        (/\ p # q
         /\ req[p].input.phone_number = req[q].input.phone_number
         /\ Answered(p, 200))
        => ~Answered(q, 200)

\* C5: the step in which generateAndSaveCertificate succeeds makes the row's
\* certificate the bytes just rendered and leaves certificate_id and every
\* other column of the row as they were.
C5_RegenerationKeepsRow ==
    [][\A p \in GenProcs :
          (gen[p].pc = "store" /\ gen'[p].pc = "done" /\ gen'[p].result.success) =>
              LET sid == gen[p].studentId
              IN  /\ students'[sid].certificate = gen[p].bytes
                  /\ [students'[sid] EXCEPT !.certificate = NoCertificate]
                       = [students[sid] EXCEPT !.certificate = NoCertificate]]_vars

\* a call succeeded on a row that already held a certificate, and the row now
\* holds the bytes of that call under the identifier the call returned
C5_Witness ==
    \E p \in GenProcs :
        /\ Succeeded(p)
        /\ gen[p].replaced
        /\ students[gen[p].studentId].certificate = gen[p].bytes
        /\ students[gen[p].studentId].certificate_id = gen[p].result.certificateId

\* the document was rendered from a complete studentData
CompleteDoc(doc) ==
    /\ ~Falsy(doc.nameText)
    /\ doc.courseText # "undefined"
    /\ doc.companyText # "undefined"
    /\ doc.startText # InvalidDateText
    /\ doc.endText # InvalidDateText
    /\ ~Falsy(doc.qr)

\* C6: a studentData with a required field absent or empty makes rendering
\* fail with InvalidInput and yields no bytes, for a direct call of
\* generateCertificate, and nothing rendered from such data is ever stored by
\* generateAndSaveCertificate.
C6_MissingFieldIsInvalidInput ==
    /\ (rendered.called /\ MissingFields(rendered.input) # {}) =>
          /\ ~rendered.ok
          /\ rendered.bytes = <<>>
          /\ rendered.error.name = "InvalidInput"
    /\ \A sid \in StudentIds : Stored(sid) => CompleteDoc(StoredDoc(sid))

\* C7: a generateAndSaveCertificate call that fails returns no success result
\* and no bytes, and its failing step leaves the students table as it was; a
\* stored certificate changes only in the step in which a call for that
\* student succeeds.
C7_FailureLeavesCertificate ==
    [][/\ \A p \in GenProcs :
             (gen[p].pc # "done" /\ gen'[p].pc = "done" /\ ~gen'[p].result.success) =>
                 /\ students' = students
                 /\ gen'[p].bytes = <<>>
                 /\ gen'[p].result.certificateId = NULL
       /\ \A sid \in StudentIds :
             students'[sid].certificate # students[sid].certificate =>
                 \E p \in GenProcs :
                     /\ gen[p].pc = "store" /\ gen[p].studentId = sid
                     /\ gen'[p].pc = "done" /\ gen'[p].result.success]_vars

\* a call failed at the store on a student whose certificate, stored by the
\* other call, is still the stored one
C7_Witness ==
    \E p, q \in GenProcs :
        /\ Failed(p) /\ gen[p].result.message = "Failed to save certificate"
        /\ Succeeded(q) /\ gen[q].studentId = gen[p].studentId
        /\ students[gen[p].studentId].certificate = gen[q].bytes

\* C8: the error generateCertificate raises is of kind TemplateUnavailable
\* when the template cannot be loaded and of kind RenderingFailed when a
\* later step (font, QR code, image, serialization) fails.
C8_ErrorKinds ==
    (rendered.called /\ ~rendered.ok) =>
        /\ rendered.error.cause \in TemplateCauses =>
              rendered.error.name = "TemplateUnavailable"
        /\ rendered.error.cause \notin (TemplateCauses \cup InputCauses) =>
              rendered.error.name = "RenderingFailed"

\* C9: every stored certificate was rendered from its own row (it names the
\* course and company of the row it is stored in), and a step of a
\* generateAndSaveCertificate call changes no row but the one of its own
\* student id and no state of the other call.
C9_RendersIndependent ==
    /\ [](\A sid \in StudentIds :
            Stored(sid) =>
                /\ StoredDoc(sid).courseText = students[sid].course_name
                /\ StoredDoc(sid).companyText = students[sid].company_name)
    /\ [][\A p \in GenProcs :
            gen'[p] # gen[p] =>
                /\ \A q \in GenProcs \ {p} : gen'[q] = gen[q]
                /\ \A sid \in StudentIds \ {gen'[p].studentId} :
                      students'[sid] = students[sid]]_vars

\* two calls for different students were in flight together and both stored
\* their own document
C9_Witness ==
    /\ Succeeded("g1") /\ Succeeded("g2")
    /\ gen["g1"].studentId # gen["g2"].studentId
    /\ \A p \in GenProcs : students[gen[p].studentId].certificate = gen[p].bytes

\* C10: on every host offset formatDate maps the ISO date YYYY-MM-DD to the
\* same day (no leading zero), the English name of the same month and the
\* same year.
C10_FormatDateKeepsDay ==
    dateCall.called =>
        dateCall.result = [ day |-> dateCall.arg[3],
                            month |-> MonthNames[dateCall.arg[2]],
                            year |-> dateCall.arg[1] ]

\* twice the distance between a point and the page's horizontal midpoint,
\* from twice the point's x
OffCenter2(x2, width) == IF x2 >= width THEN x2 - width ELSE width - x2

\* the visual center of a text drawn at x: x + estimated width / 2, doubled,
\* with the estimated width the character count times the line's multiplier
VisualCenter2(x2, text, charUnits) == x2 + Len(text) * charUnits

\* C11: for each of the three text lines the visual center (start x plus
\* half the estimated width, the estimated width being the character count
\* times the constant of the line's font size) lies within one estimated
\* character of the page's horizontal midpoint, whatever the page width and
\* the length of the text.
C11_VisualCenterAtMidpoint ==
    layout.called =>
        /\ OffCenter2(VisualCenter2(layout.nameX2, layout.input.preferred_name,
                                    NameCharUnits), layout.width)
              <= 2 * NameCharUnits
        /\ OffCenter2(VisualCenter2(layout.completionX2, layout.completionText,
                                    TextCharUnits), layout.width)
              <= 2 * TextCharUnits
        /\ OffCenter2(VisualCenter2(layout.dateX2, layout.dateText,
                                    TextCharUnits), layout.width)
              <= 2 * TextCharUnits

\* C12: the QR image is an 80 x 80 square whose right edge is 20 units from
\* the page's right edge and whose top edge is 20 units from the page's top
\* edge, for every page size and every studentData.
C12_QRTopRight ==
    layout.called =>
        /\ layout.qr.width = 80
        /\ layout.qr.height = 80
        /\ layout.qr.x + layout.qr.width = layout.width - 20
        /\ layout.qr.y + layout.qr.height = layout.height - 20

\* the longest name was drawn on a portrait page of odd width, and its QR
\* image sits where the one of the shortest name would
C12_Witness ==
    /\ layout.called
    /\ layout.width = 595
    /\ layout.input.preferred_name = "Venkata Subramanian Iyer"
    /\ layout.qr = [x |-> 495, y |-> 742, width |-> 80, height |-> 80]
    /\ layout.qr = Draw([layout.input EXCEPT !.preferred_name = "A"], tz,
                        layout.width, layout.height).qr

\* C13: a render of a complete studentData on a loadable template, with no
\* library call failing, returns a non-empty byte sequence; every byte
\* sequence the renderer returns, and every one stored, declares one page.
C13_OnePageNonEmpty ==
    /\ (/\ rendered.called
        /\ MissingFields(rendered.input) = {}
        /\ template = "ok"
        /\ rendered.fault = "none") =>
            /\ rendered.ok
            /\ rendered.bytes # <<>>
    /\ (rendered.called /\ rendered.ok) =>
            /\ Len(rendered.bytes) = 1
            /\ rendered.bytes[1].pageCount = 1
    /\ \A sid \in StudentIds : Stored(sid) => StoredDoc(sid).pageCount = 1
    /\ \A p \in GenProcs : gen[p].bytes # <<>> => gen[p].bytes[1].pageCount = 1

\* a complete studentData was rendered directly and a certificate rendered
\* by generateAndSaveCertificate is stored
C13_Witness ==
    /\ rendered.called /\ rendered.ok
    /\ MissingFields(rendered.input) = {}
    /\ rendered.bytes[1].qr = rendered.input.certificate_id
    /\ \E sid \in StudentIds : Stored(sid)

\* C15: a call of generateCertificate, made directly or by
\* generateAndSaveCertificate, succeeding or failing, leaves every student
\* row, every OTP session and the template asset as they were.
C15_RendererHasNoSideEffect ==
    [][(\/ rendered' # rendered
        \/ \E p \in GenProcs : gen[p].pc = "render" /\ gen'[p].pc # "render") =>
            /\ students' = students
            /\ otp_sessions' = otp_sessions
            /\ template' = template]_vars

\* a direct call failed at serialization, beside a stored certificate and an
\* issued OTP session, and the template still loads
C15_Witness ==
    /\ rendered.called /\ ~rendered.ok
    /\ rendered.fault = "save"
    /\ otp_sessions = IssuedSessions
    /\ template = "ok"
    /\ \E sid \in StudentIds : Stored(sid)

\* C16: a download answered 200 carries the filename
\* <recipientName>_Certificate_<certificateId>.pdf, with the recipient name
\* and the certificate identifier of the certificate whose bytes it delivers.
C16_FilenameNamesCertificate ==
    download.status = 200 =>
        download.filename =
            download.body[1].nameText \o "_Certificate_"
                \o download.body[1].qr \o ".pdf"

\* C17: no two verifyOTP calls return isValid true for the same
\* otp_sessions row.
C17_OtpSingleUse ==
    \A p, q \in VerifyProcs :
        (/\ p # q
         /\ verify[p].pc = "done" /\ verify[p].isValid
         /\ verify[q].pc = "done" /\ verify[q].isValid)
        => verify[p].otpRecord[1].session_id # verify[q].otpRecord[1].session_id

\* a storeOTP call (inside sendOTP) is in progress for the number
Storing(phone) ==
    \E p \in SendProcs :
        /\ send[p].pc \in {"invalidate", "insert"}
        /\ send[p].formattedPhone = phone

\* C18: whenever no storeOTP call is in progress for a phone number, at most
\* one otp_sessions row of that number has is_verified = false.
C18_OneLiveOtpPerPhone ==
    \A phone \in {r.phone_number : r \in otp_sessions} :
        ~Storing(phone) =>
            Cardinality({r \in otp_sessions :
                            r.phone_number = phone /\ ~r.is_verified}) <= 1

\* C19: a row expires 10 minutes after storeOTP was called for it and never
\* later than 10 minutes after it was inserted; verifyOTP accepts a row only
\* at a time strictly before the row's expires_at, and a call made when every
\* row of its number and code has reached expires_at returns isValid false.
C19_OtpExpires ==
    /\ [](/\ \A p \in SendProcs :
                send[p].pc \in {"insert", "sms", "done"} /\ send[p].expiresAt # 0 =>
                    send[p].expiresAt = send[p].storeCalledAt + 10
          /\ \A r \in otp_sessions :
                /\ r.expires_at <= r.created_at + 10
                /\ r.session_id \in SendProcs =>
                      r.expires_at = send[r.session_id].storeCalledAt + 10
          /\ \A p \in VerifyProcs :
                verify[p].otpRecord # <<>> =>
                    verify[p].checkedAt < verify[p].otpRecord[1].expires_at)
    /\ [][\A p \in VerifyProcs :
            (/\ verify[p].pc = "idle" /\ verify'[p].pc # "idle"
             /\ \A r \in otp_sessions :
                   (r.phone_number = verify'[p].phoneNumber
                        /\ r.otp_code = verify'[p].otp) => r.expires_at <= now)
            => /\ verify'[p].pc = "done"
               /\ ~verify'[p].isValid
               /\ verify'[p].otpRecord = <<>>]_vars

\* a verifyOTP call with the number and code of an unused row, inserted by
\* a sendOTP call the minute storeOTP was called, was rejected at the very
\* minute the row reached its expires_at
C19_Witness ==
    \E p \in VerifyProcs :
        /\ verify[p].pc = "done" /\ ~verify[p].isValid
        /\ \E r \in otp_sessions :
              /\ r.phone_number = verify[p].phoneNumber
              /\ r.otp_code = verify[p].otp
              /\ ~r.is_verified
              /\ r.expires_at = verify[p].checkedAt
              /\ r.session_id \in SendProcs
              /\ r.created_at = send[r.session_id].storeCalledAt

\* the formatted number is ten digits, the first of them 6 to 9
TenDigitMobile(chars) ==
    /\ Len(chars) = 10
    /\ chars[1] \in {"6", "7", "8", "9"}
    /\ \A i \in 1..Len(chars) : chars[i] \in DigitChars

\* the number is in the table the role selects
RegisteredFor(phone, role) ==
    LET isAdmin == \E a \in AdminRows : a.phone_number = phone
        isStudent == \E sid \in StudentIds : /\ students[sid].phone_number = phone
                                             /\ ~students[sid].deleted
    IN  CASE role = "admin" -> isAdmin
          [] role \in {"user", "student"} -> isStudent
          [] OTHER -> isAdmin \/ isStudent

MayReceiveOtp(phoneNumber, role) ==
    /\ TenDigitMobile(formatPhoneNumber(phoneNumber))
    /\ RegisteredFor(StringOf(formatPhoneNumber(phoneNumber)), role)

RowOf(p) == { r \in otp_sessions : r.session_id = p }
Verifiable(p) ==
    \E r \in RowOf(p) :
        r \in Matching(otp_sessions, r.phone_number, r.otp_code, now)

\* C21: the OTP is stored before the SMS is sent and an SMS failure does not
\* undo it.  Every code handed to the gateway has its row in otp_sessions;
\* and the step of sendOTP in which sendOtpSms returns success false finds
\* the row of the call stored, leaves every otp_sessions row as it was (so a
\* row that was verifiable stays verifiable), makes sendOTP return success
\* true, and POST /send-otp answers 200 with smsStatus false.
C21_SmsFailureKeepsOtp ==
    /\ [](\A i \in 1..Len(sms) :
            \E r \in otp_sessions : /\ r.phone_number = sms[i].receiver
                                    /\ r.otp_code = sms[i].otp)
    /\ [][\A p \in SendProcs :
            (send[p].pc = "sms" /\ send'[p].pc = "done" /\ ~send'[p].smsSuccess)
                => /\ RowOf(p) # {}
                   /\ otp_sessions' = otp_sessions
                   /\ send'[p].success
                   /\ SendOtpAnswer(send'[p]) =
                         [ status |-> 200, success |-> TRUE, smsStatus |-> FALSE ]]_vars

\* a sendOTP call has returned after the gateway failed to deliver, and its
\* row is still one verifyOTP accepts
C21_Witness ==
    \E p \in SendProcs :
        /\ send[p].pc = "done"
        /\ send[p].success
        /\ ~send[p].smsSuccess
        /\ sms # <<>>
        /\ ~sms[Len(sms)].delivered
        /\ SendOtpAnswer(send[p]).status = 200
        /\ Verifiable(p)

\* the calendar month n months after month m of year y, as <<year, month>>
MonthsLater(y, m, n) == <<y + ((m - 1 + n) \div 12), ((m - 1 + n) % 12) + 1>>

\* C22: the stored internship end date is the start date plus
\* internship_duration calendar months: it falls in the month exactly
\* internship_duration months after the start month, on the same day of the
\* month as the start date.
C22_EndDateSameDayMonthsLater ==
    \A sid \in StudentIds :
        LET row == students[sid]
            start == row.internship_start_date
            end == row.internship_end_date
        IN  end # NoDate =>
              /\ <<end[1], end[2]>> =
                    MonthsLater(start[1], start[2], row.internship_duration)
              /\ end[3] = start[3]

\* C23: a verifyOTP call whose select matches no row (wrong code, other phone
\* number, expired or already verified row) returns isValid false with
\* 'Invalid or expired OTP' and leaves every otp_sessions row unchanged.
C23_FailedVerifyChangesNothing ==
    [][\A p \in VerifyProcs :
         ( /\ verify[p].pc = "idle"
           /\ verify'[p].pc # "idle"
           /\ Matching(otp_sessions, verify'[p].phoneNumber, verify'[p].otp, now) = {} )
         => /\ verify'[p].pc = "done"
            /\ ~verify'[p].isValid
            /\ verify'[p].message = "Invalid or expired OTP"
            /\ verify'[p].error = NULL
            /\ otp_sessions' = otp_sessions]_vars

\* a call with the wrong code was rejected and the valid OTP of that phone is
\* still one verifyOTP accepts
C23_Witness ==
    \E p \in VerifyProcs :
        /\ verify[p].pc = "done"
        /\ ~verify[p].isValid
        /\ verify[p].message = "Invalid or expired OTP"
        /\ \E r \in otp_sessions :
              /\ r.phone_number = verify[p].phoneNumber
              /\ r.otp_code # verify[p].otp
              /\ r.created_at <= verify[p].checkedAt
              /\ r \in Matching(otp_sessions, r.phone_number, r.otp_code, now)

\* C24: the download succeeds exactly when a certificate is stored for the
\* student and then delivers the bytes written by the most recent successful
\* generateAndSaveCertificate for that student; when none is stored it fails
\* with 'Certificate not found'; the download changes no stored state.  The
\* certificate column changes only in the storing step of a successful
\* generateAndSaveCertificate for that student, which leaves its bytes there,
\* so the column holds what the most recent one wrote; a download answers
\* from the column as it is and leaves the tables alone.
C24_DownloadDeliversLatest ==
    /\ [][\A sid \in StudentIds :
            students'[sid].certificate # students[sid].certificate
                => \E p \in GenProcs :
                      /\ gen[p].pc = "store"
                      /\ gen'[p].pc = "done"
                      /\ gen'[p].result.success
                      /\ gen'[p].studentId = sid
                      /\ students'[sid].certificate = gen'[p].bytes]_vars
    /\ [][download' # download =>
            LET sid == download'.studentId
                stored == /\ sid \in StudentIds
                          /\ students[sid].certificate # NoCertificate
            IN  /\ (download'.status = 200) <=> stored
                /\ stored => download'.body = students[sid].certificate
                /\ ~stored => /\ download'.status = 500
                              /\ download'.details = "Certificate not found"
                /\ UNCHANGED <<students, otp_sessions, template>>]_vars

====
